---- MODULE Spec2Model ----
(***************************************************************************)
(* Model of the two scripts of the repository:                             *)
(*   examples/t7_optuna_calibration.py  (calibration with Optuna workers)  *)
(*   my_countries/ZIM/run_ZIM.py        (vaccination scenarios, run_msim)  *)
(* Floating-point parameters are fixed-point integers, scaled by 1000      *)
(* (0.005 is 5, 3.0 is 3000).  Python objects are records; None is the     *)
(* string "None".  The external libraries are the environment: what they   *)
(* return is drawn from small sets, what they store is the state.          *)
(***************************************************************************)
EXTENDS Integers, Sequences, FiniteSets, Bags, TLC

VARIABLES
    \* ---- t7_optuna_calibration.py, the script ----
    mpc,        \* position of the main process in the __main__ block
    dbfile,     \* the study database file <name>.db (NoFile when absent)
    wk,         \* per worker: position, trials finished, exception raised
    best_pars,  \* the mapping read from study.best_params (NoPars before)
    before,     \* result of run_sim(initial_pars, 'Before calibration', True)
    after,      \* result of run_sim(best_pars, 'After calibration', True)
    plotted,    \* the sims handed to msim.plot (<<>> before)
    err,        \* the exception that reached the top level ("none" if none)
    datafile,   \* does the data file that run_sim names exist?
    removed,    \* has make_study printed 'Removed existing calibration'?
    \* ---- one call of run_sim / run_trial ----
    call,       \* the call under study: function, arguments, library outcome
    result,     \* what the call produced (NoResult before it ran)
    \* ---- run_ZIM.py ----
    zpc,        \* position inside run_msim / the __main__ block
    zin,        \* arguments of the run_msim call in progress
    zcalls,     \* the invocations of func made by sc.parallelize so far
    zsims,      \* the list returned by sc.parallelize
    msim,       \* the MultiSim under construction in run_msim
    msims,      \* the MultiSims returned by run_msim so far
    merged      \* the sims of MultiSim.merge(msims, base=True)

vars == <<mpc, dbfile, wk, best_pars, before, after, plotted, err, datafile, removed,
          call, result, zpc, zin, zcalls, zsims, msim, msims, merged>>

calibVars == <<mpc, dbfile, wk, best_pars, before, after, plotted, err, datafile,
               removed>>
trialVars == <<call, result>>
zimVars   == <<zpc, zin, zcalls, zsims, msim, msims, merged>>

----------------------------------------------------------------------------
(* Bounds of the model *)

\* workers run in parallel (the script sets 4)
n_workers == 2
\* trials per worker (the script sets 25)
n_trials == 2
\* the sampler of a trial draws a quantile 0..SampleSteps of the requested range
SampleSteps == 2
\* largest n_runs passed to run_msim
MaxRuns == 2

(* Program constants, scaled by 1000 *)
BetaLow == 5
BetaHigh == 20
RdpLow == 500
RdpHigh == 3000
InitialBeta == 15
InitialRdp == 1000

None == "None"
ParamNames == {"beta", "rel_death_prob"}
\* mismatches the fit of a simulation can report
Mismatches == {1, 2}
Quantiles == 0..SampleSteps

\* the keys of a Python dict
Keys(d) == DOMAIN d

----------------------------------------------------------------------------
(* run_sim and run_trial *)

NoPars == [k \in {} |-> 0]

NoSim == [label |-> None, beta |-> 0, rel_death_prob |-> 0,
          start_day |-> None, end_day |-> None, interventions |-> None,
          datafile |-> None, ran |-> FALSE, fitted |-> FALSE]

\* what a call produced: an exception, a scalar or a simulation object
\* (kind says which: "none", "scalar", "sim", or "dict" for a mapping)
Raise(e, steps) ==
    [raised |-> e, kind |-> "none", mismatch |-> 0, sim |-> NoSim, dict |-> NoPars,
     steps |-> steps]
ReturnScalar(m, steps) ==
    [raised |-> "none", kind |-> "scalar", mismatch |-> m, sim |-> NoSim, dict |-> NoPars,
     steps |-> steps]
ReturnSim(s, steps) ==
    [raised |-> "none", kind |-> "sim", mismatch |-> 0, sim |-> s, dict |-> NoPars,
     steps |-> steps]

\* what the simulator meets in one call: the data file is there or not, the run
\* raises or not, and the fit reports a mismatch
SimFaults == {"none", "SimulatorError"}
SimEnvs == [datafile : BOOLEAN, fault : SimFaults, mismatch : Mismatches]

run_sim_flagless(pars, label, return_sim, env) ==
    IF ~ ("beta" \in Keys(pars) /\ "rel_death_prob" \in Keys(pars))
    THEN Raise("KeyError", <<>>)
    ELSE LET sim == [label |-> label, beta |-> pars["beta"],
                     rel_death_prob |-> pars["rel_death_prob"],
                     start_day |-> "2020-02-01", end_day |-> "2020-04-11",
                     interventions |-> "test_num", datafile |-> "example_data.csv",
                     ran |-> TRUE, fitted |-> TRUE]
         IN IF ~ env.datafile THEN Raise("FileNotFoundError", <<"dict">>)
            ELSE IF env.fault = "SimulatorError" THEN Raise(env.fault, <<"dict", "Sim">>)
            ELSE ReturnScalar(env.mismatch, <<"dict", "Sim", "run", "compute_fit">>)

run_sim(pars, label, return_sim, env) ==
    IF ~ ("beta" \in Keys(pars) /\ "rel_death_prob" \in Keys(pars))
    THEN Raise("KeyError", <<>>)
    ELSE LET sim == [label |-> label, beta |-> pars["beta"],
                     rel_death_prob |-> pars["rel_death_prob"],
                     start_day |-> "2020-02-01", end_day |-> "2020-04-11",
                     interventions |-> "test_num", datafile |-> "example_data.csv",
                     ran |-> TRUE, fitted |-> TRUE]
         IN IF ~ env.datafile THEN Raise("FileNotFoundError", <<"dict">>)
            ELSE IF env.fault = "SimulatorError" THEN Raise(env.fault, <<"dict", "Sim">>)
            ELSE IF return_sim
                 THEN ReturnSim(sim, <<"dict", "Sim", "run", "compute_fit">>)
                 ELSE ReturnScalar(env.mismatch, <<"dict", "Sim", "run", "compute_fit">>)

\* a trial object: its sampler's quantile for each parameter name
TrialObjects == [ParamNames -> Quantiles]

suggest_uniform(trial, pname, low, high) ==
    low + ((high - low) * trial[pname]) \div SampleSteps

\* what run_trial does: the dict it builds, the parameters the trial records
\* (by the names given to suggest_uniform), its call of run_sim and its result
run_trial_samename(trial, env) ==
    LET b == suggest_uniform(trial, "beta", BetaLow, BetaHigh)
        r == suggest_uniform(trial, "beta", RdpLow, RdpHigh)
        pars == [beta |-> b, rel_death_prob |-> r]
        out == run_sim(pars, None, FALSE, env)
    IN [pars |-> pars,
        params |-> [beta |-> b],
        simcalls |-> <<[pars |-> pars, label |-> None, return_sim |-> FALSE]>>,
        simout |-> out,
        out |-> out]

run_trial_widebeta(trial, env) ==
    LET b == suggest_uniform(trial, "beta", BetaLow, RdpHigh)
        r == suggest_uniform(trial, "rel_death_prob", RdpLow, RdpHigh)
        pars == [beta |-> b, rel_death_prob |-> r]
        out == run_sim(pars, None, FALSE, env)
    IN [pars |-> pars,
        params |-> [beta |-> b, rel_death_prob |-> r],
        simcalls |-> <<[pars |-> pars, label |-> None, return_sim |-> FALSE]>>,
        simout |-> out,
        out |-> out]

run_trial_returnsim(trial, env) ==
    LET b == suggest_uniform(trial, "beta", BetaLow, BetaHigh)
        r == suggest_uniform(trial, "rel_death_prob", RdpLow, RdpHigh)
        pars == [beta |-> b, rel_death_prob |-> r]
        out == run_sim(pars, None, TRUE, env)
    IN [pars |-> pars,
        params |-> [beta |-> b, rel_death_prob |-> r],
        simcalls |-> <<[pars |-> pars, label |-> None, return_sim |-> TRUE]>>,
        simout |-> out,
        out |-> out]

run_trial(trial, env) ==
    LET b == suggest_uniform(trial, "beta", BetaLow, BetaHigh)
        r == suggest_uniform(trial, "rel_death_prob", RdpLow, RdpHigh)
        pars == [beta |-> b, rel_death_prob |-> r]
        out == run_sim(pars, None, FALSE, env)
    IN [pars |-> pars,
        params |-> [beta |-> b, rel_death_prob |-> r],
        simcalls |-> <<[pars |-> pars, label |-> None, return_sim |-> FALSE]>>,
        simout |-> out,
        out |-> out]

----------------------------------------------------------------------------
(* One call of run_sim or run_trial, on inputs drawn from bounded sets *)

Labels == {None, "Before calibration", "After calibration"}

\* dicts handed to run_sim: sampled ones, initial_pars, and one lacking a key
\* (pars["rel_death_prob"] then raises KeyError)
SampledPars == {[beta |-> suggest_uniform(t, "beta", BetaLow, BetaHigh),
                 rel_death_prob |-> suggest_uniform(t, "rel_death_prob", RdpLow, RdpHigh)]
                : t \in TrialObjects}
initial_pars == [beta |-> InitialBeta, rel_death_prob |-> InitialRdp]
ParsInputs == SampledPars \cup {initial_pars, [beta |-> InitialBeta]}

NoTrial == [n \in ParamNames |-> 0]
NoOut == Raise("none", <<>>)
NoResult == [done |-> FALSE, pars |-> initial_pars, params |-> initial_pars,
             simcalls |-> <<>>, simout |-> NoOut, out |-> NoOut]

RunSimCalls == [fn : {"run_sim"}, pars : ParsInputs, label : Labels,
                return_sim : BOOLEAN, trial : {NoTrial}, env : SimEnvs]
RunTrialCalls == [fn : {"run_trial"}, pars : {initial_pars}, label : {None},
                  return_sim : {FALSE}, trial : TrialObjects, env : SimEnvs]

CallRunSim ==
    /\ call.fn = "run_sim"
    /\ ~ result.done
    /\ LET out == run_sim(call.pars, call.label, call.return_sim, call.env)
       IN result' = [done |-> TRUE, pars |-> call.pars, params |-> call.pars,
                     simcalls |-> <<>>, simout |-> out, out |-> out]
    /\ UNCHANGED <<call, calibVars, zimVars>>

CallRunTrial ==
    /\ call.fn = "run_trial"
    /\ ~ result.done
    /\ LET r == run_trial(call.trial, call.env)
       IN result' = [done |-> TRUE, pars |-> r.pars, params |-> r.params,
                     simcalls |-> r.simcalls, simout |-> r.simout, out |-> r.out]
    /\ UNCHANGED <<call, calibVars, zimVars>>

----------------------------------------------------------------------------
(* t7_optuna_calibration.py: the study database and the workers *)

Workers == 1..n_workers

\* the trials of a study are a multiset of records: the script never uses their numbers
NoFile == [exists |-> FALSE, study |-> FALSE, trials |-> EmptyBag]

\* a trial left by an earlier calibration run (epoch 0); this run's have epoch 1
OldTrial == [state |-> "COMPLETE", params |-> initial_pars, value |-> 0, epoch |-> 0]
OldFiles == {[exists |-> TRUE, study |-> FALSE, trials |-> EmptyBag],
             [exists |-> TRUE, study |-> TRUE, trials |-> EmptyBag],
             [exists |-> TRUE, study |-> TRUE, trials |-> SetToBag({OldTrial})]}

IdleWorker == [pc |-> "idle", done |-> 0, err |-> "none"]

\* op.create_study(storage, study_name) on the file as it is
create_study(file) ==
    IF file.exists /\ file.study
    THEN [raised |-> "DuplicatedStudyError", file |-> file]
    ELSE [raised |-> "none",
          file |-> [exists |-> TRUE, study |-> TRUE, trials |-> EmptyBag]]

\* op.load_study(storage, study_name) on the file as it is
load_study(file) ==
    IF file.exists /\ file.study THEN "none" ELSE "KeyError"

\* study.best_params: the parameters of a complete trial of least value
CompleteTrials(file) ==
    {t \in BagToSet(file.trials) : t.state = "COMPLETE"}
BestTrials(file) ==
    {t \in CompleteTrials(file) : \A o \in CompleteTrials(file) : t.value <= o.value}

\* what a call of run_sim can meet in this run of the script
HereEnvs == {e \in SimEnvs : e.datafile = datafile}

Crash(e) ==
    /\ mpc' = "crashed"
    /\ err' = e

(* make_study *)
MakeStudyExists_keep ==
    /\ mpc = "make_study"
    /\ mpc' = "create_study"
    /\ UNCHANGED <<dbfile, wk, best_pars, before, after, plotted, err, datafile, removed, trialVars, zimVars>>

MakeStudyExists ==
    /\ mpc = "make_study"
    /\ mpc' = IF dbfile.exists THEN "remove" ELSE "create_study"
    /\ UNCHANGED <<dbfile, wk, best_pars, before, after, plotted, err, datafile, removed, trialVars, zimVars>>

MakeStudyRemove ==
    /\ mpc = "remove"
    /\ dbfile' = NoFile
    /\ removed' = TRUE
    /\ mpc' = "create_study"
    /\ UNCHANGED <<wk, best_pars, before, after, plotted, err, datafile, trialVars, zimVars>>

MakeStudyCreate ==
    /\ mpc = "create_study"
    /\ LET r == create_study(dbfile)
       IN IF r.raised = "none"
          THEN /\ dbfile' = r.file
               /\ mpc' = "run_workers"
               /\ err' = err
          ELSE /\ Crash(r.raised)
               /\ dbfile' = dbfile
    /\ UNCHANGED <<wk, best_pars, before, after, plotted, datafile, removed, trialVars, zimVars>>

MakeStudyStorageError ==
    /\ mpc = "create_study"
    /\ Crash("StorageError")
    /\ UNCHANGED <<dbfile, wk, best_pars, before, after, plotted, datafile, removed, trialVars, zimVars>>

(* run_workers: sc.parallelize(worker, n_workers) *)
Spawned == [w \in Workers |-> [IdleWorker EXCEPT !.pc = "load_study"]]

RunWorkersSpawn ==
    /\ mpc = "run_workers"
    /\ wk' = Spawned
    /\ mpc' = "join"
    /\ UNCHANGED <<dbfile, best_pars, before, after, plotted, err, datafile, removed, trialVars, zimVars>>

\* may the main process leave sc.parallelize normally?
JoinReady_any == \E w \in Workers : wk[w].pc = "returned"
JoinReady == \A w \in Workers : wk[w].pc = "returned"

RunWorkersJoin ==
    /\ mpc = "join"
    /\ JoinReady
    /\ mpc' = "load_study"
    /\ UNCHANGED <<dbfile, wk, best_pars, before, after, plotted, err, datafile, removed, trialVars, zimVars>>

RunWorkersRaise_swallow ==
    /\ mpc = "join"
    /\ \E w \in Workers : wk[w].pc = "raised"
    /\ mpc' = "load_study"
    /\ UNCHANGED <<dbfile, wk, best_pars, before, after, plotted, err, datafile, removed, trialVars, zimVars>>

\* an exception of a worker is raised again by sc.parallelize in the main process
RunWorkersRaise ==
    /\ mpc = "join"
    /\ \E w \in Workers :
          /\ wk[w].pc = "raised"
          /\ Crash(wk[w].err)
    /\ UNCHANGED <<dbfile, wk, best_pars, before, after, plotted, datafile, removed, trialVars, zimVars>>

(* worker: load_study, then study.optimize(run_trial, n_trials) *)
WorkerLoadStudy(w) ==
    /\ mpc = "join"
    /\ wk[w].pc = "load_study"
    /\ \E fault \in {"none", "StorageError"} :
          LET e == IF fault = "none" THEN load_study(dbfile) ELSE fault
          IN wk' = [wk EXCEPT ![w] = IF e = "none"
                                     THEN [@ EXCEPT !.pc = "optimize"]
                                     ELSE [@ EXCEPT !.pc = "raised", !.err = e]]
    /\ UNCHANGED <<mpc, dbfile, best_pars, before, after, plotted, err, datafile, removed, trialVars, zimVars>>

\* a trial the study has handed out and not heard of again
RunningTrial == [state |-> "RUNNING", params |-> NoPars, value |-> 0, epoch |-> 1]

\* the trial objects the study hands out: its sampler draws the low ends or
\* the high ends of the requested ranges
StudySampler == {[n \in ParamNames |-> q] : q \in {0, SampleSteps}}

\* the storage replaces the record of a running trial by its outcome
Tell(trials, rec) == (trials (-) SetToBag({RunningTrial})) (+) SetToBag({rec})

\* does the optimize loop of a worker that finished `done` trials go on?
MoreTrials_short(done) == done < n_trials - 1
MoreTrials(done) == done < n_trials

\* the loop asks the study for a new trial: the storage adds a RUNNING record,
\* or fails
WorkerAsk(w) ==
    /\ mpc = "join"
    /\ wk[w].pc = "optimize"
    /\ MoreTrials(wk[w].done)
    /\ \E fault \in {"none", "StorageError"} :
          IF fault = "none"
          THEN /\ dbfile' = [dbfile EXCEPT !.trials = @ (+) SetToBag({RunningTrial})]
               /\ wk' = [wk EXCEPT ![w] = [@ EXCEPT !.pc = "objective"]]
          ELSE /\ dbfile' = dbfile
               /\ wk' = [wk EXCEPT ![w] = [@ EXCEPT !.pc = "raised", !.err = fault]]
    /\ UNCHANGED <<mpc, best_pars, before, after, plotted, err, datafile, removed, trialVars, zimVars>>

\* the loop calls run_trial(trial) and tells the study the outcome
WorkerObjective(w) ==
    /\ mpc = "join"
    /\ wk[w].pc = "objective"
    /\ \E trial \in StudySampler, env \in HereEnvs :
          LET r == run_trial(trial, env)
              failed == [RunningTrial EXCEPT !.state = "FAIL", !.params = r.params]
              complete == [RunningTrial EXCEPT !.state = "COMPLETE", !.params = r.params,
                                               !.value = r.out.mismatch]
          IN IF r.out.raised # "none"
             THEN /\ dbfile' = [dbfile EXCEPT !.trials = Tell(@, failed)]
                  /\ wk' = [wk EXCEPT ![w] = [@ EXCEPT !.pc = "raised",
                                                       !.err = r.out.raised]]
             ELSE /\ dbfile' = [dbfile EXCEPT !.trials =
                                   Tell(@, IF r.out.kind = "scalar" THEN complete ELSE failed)]
                  /\ wk' = [wk EXCEPT ![w] = [@ EXCEPT !.pc = "optimize",
                                                       !.done = @ + 1]]
    /\ UNCHANGED <<mpc, best_pars, before, after, plotted, err, datafile, removed, trialVars, zimVars>>

WorkerReturn(w) ==
    /\ mpc = "join"
    /\ wk[w].pc = "optimize"
    /\ ~ MoreTrials(wk[w].done)
    /\ wk' = [wk EXCEPT ![w] = [@ EXCEPT !.pc = "returned"]]
    /\ UNCHANGED <<mpc, dbfile, best_pars, before, after, plotted, err, datafile, removed, trialVars, zimVars>>

(* the rest of the __main__ block *)
MainLoadStudy ==
    /\ mpc = "load_study"
    /\ \E fault \in {"none", "StorageError"} :
          LET e == IF fault = "none" THEN load_study(dbfile) ELSE fault
          IN IF e = "none"
             THEN mpc' = "best_params" /\ err' = err
             ELSE Crash(e)
    /\ UNCHANGED <<dbfile, wk, best_pars, before, after, plotted, datafile, removed, trialVars, zimVars>>

MainBestParams ==
    /\ mpc = "best_params"
    /\ IF BestTrials(dbfile) = {}
       THEN Crash("ValueError") /\ best_pars' = best_pars
       ELSE /\ \E t \in BestTrials(dbfile) : best_pars' = t.params
            /\ mpc' = "before"
            /\ err' = err
    /\ UNCHANGED <<dbfile, wk, before, after, plotted, datafile, removed, trialVars, zimVars>>

MainBefore ==
    /\ mpc = "before"
    /\ \E env \in HereEnvs :
          LET out == run_sim(initial_pars, "Before calibration", TRUE, env)
          IN IF out.raised = "none"
             THEN before' = out /\ mpc' = "after" /\ err' = err
             ELSE before' = before /\ Crash(out.raised)
    /\ UNCHANGED <<dbfile, wk, best_pars, after, plotted, datafile, removed, trialVars, zimVars>>

MainAfter ==
    /\ mpc = "after"
    /\ \E env \in HereEnvs :
          LET out == run_sim(best_pars, "After calibration", TRUE, env)
          IN IF out.raised = "none"
             THEN after' = out /\ mpc' = "plot" /\ err' = err
             ELSE after' = after /\ Crash(out.raised)
    /\ UNCHANGED <<dbfile, wk, best_pars, before, plotted, datafile, removed, trialVars, zimVars>>

MainPlot ==
    /\ mpc = "plot"
    /\ plotted' = <<before.sim, after.sim>>
    /\ mpc' = "done"
    /\ UNCHANGED <<dbfile, wk, best_pars, before, after, err, datafile, removed, trialVars, zimVars>>

----------------------------------------------------------------------------
(* run_ZIM.py: run_msim and the three scenarios of the __main__ block *)

\* the three calls of run_msim: label and extra keyword arguments
Scenarios ==
    <<[label |-> "baseline vaccination", kwargs |-> "location,end_date"],
      [label |-> "vulnerable", kwargs |-> "location,end_date,people_per_day,vulnerable"],
      [label |-> "high contacts", kwargs |-> "location,end_date,people_per_day,hcontacts"]>>

\* labels the scenario function may give the sims it builds
FuncLabels == {None, "ZIM"}

NoZSim == [seed |-> 0, kwargs |-> None, label |-> None, ran |-> FALSE, results |-> None]
NoMsim == [sims |-> <<>>, base_sim |-> NoZSim, label |-> None, which |-> None]

\* the seeds sc.parallelize iterates over: iterkwargs={"seed": range(n_runs)}
SeedRange_fromone(n) == 1..n
SeedRange(n) == 0..(n - 1)

\* func(seed=seed, **kwargs): the sim the scenario function builds
func(seed, kwargs, flabel) ==
    [seed |-> seed, kwargs |-> kwargs, label |-> flabel, ran |-> FALSE, results |-> None]

Called(seed) == \E i \in 1..Len(zcalls) : zcalls[i].seed = seed

\* sc.parallelize: one invocation of func per seed, in any order
ParallelizeCall(seed) ==
    /\ zpc = "parallelize"
    /\ seed \in SeedRange(zin.n_runs)
    /\ ~ Called(seed)
    /\ zcalls' = Append(zcalls, func(seed, Scenarios[zin.k].kwargs, zin.flabel))
    /\ UNCHANGED <<zpc, zin, zsims, msim, msims, merged, calibVars, trialVars>>

\* sc.parallelize returns the results in the order of the seeds
ParallelizeCollect ==
    /\ zpc = "parallelize"
    /\ \A seed \in SeedRange(zin.n_runs) : Called(seed)
    /\ zsims' = [i \in 1..Cardinality(SeedRange(zin.n_runs)) |->
                    LET seed == CHOOSE sd \in SeedRange(zin.n_runs) :
                                  Cardinality({o \in SeedRange(zin.n_runs) : o < sd}) = i - 1
                        c == CHOOSE j \in 1..Len(zcalls) : zcalls[j].seed = seed
                    IN zcalls[c]]
    /\ zpc' = "MultiSim"
    /\ UNCHANGED <<zin, zcalls, msim, msims, merged, calibVars, trialVars>>

\* cv.MultiSim(sims, label=label, keep_people=True)
NewMultiSim ==
    /\ zpc = "MultiSim"
    /\ msim' = [sims |-> zsims, base_sim |-> zsims[1],
                label |-> Scenarios[zin.k].label, which |-> None]
    /\ zpc' = "run"
    /\ UNCHANGED <<zin, zcalls, zsims, msims, merged, calibVars, trialVars>>

\* msim.run(keep_people=True): every sim of the container is run
MultiSimRun ==
    /\ zpc = "run"
    /\ msim' = [msim EXCEPT !.sims =
                   [i \in 1..Len(msim.sims) |->
                       [msim.sims[i] EXCEPT !.ran = TRUE, !.results = "own"]]]
    /\ zpc' = "median"
    /\ UNCHANGED <<zin, zcalls, zsims, msims, merged, calibVars, trialVars>>

\* msim.median(): the reduced sim is a deep copy of sims[0] that carries the
\* median results; it becomes base_sim, a different object from sims[0]
median(m) ==
    [m EXCEPT !.base_sim = [m.sims[1] EXCEPT !.results =
                               IF \A i \in 1..Len(m.sims) : m.sims[i].ran
                               THEN "median" ELSE "invalid"],
              !.which = "reduced"]

MultiSimMedian ==
    /\ zpc = "median"
    /\ msim' = median(msim)
    /\ zpc' = "relabel"
    /\ UNCHANGED <<zin, zcalls, zsims, msims, merged, calibVars, trialVars>>

\* msim.sims[0].label = label
Relabel ==
    /\ zpc = "relabel"
    /\ msim' = [msim EXCEPT !.sims[1].label = Scenarios[zin.k].label]
    /\ zpc' = "return"
    /\ UNCHANGED <<zin, zcalls, zsims, msims, merged, calibVars, trialVars>>

\* return msim; the __main__ block goes on to the next scenario or to the merge
RunMsimReturn ==
    /\ zpc = "return"
    /\ msims' = Append(msims, msim)
    /\ IF zin.k < Len(Scenarios)
       THEN /\ zin' = [zin EXCEPT !.k = @ + 1]
            /\ zpc' = "parallelize"
            /\ zcalls' = <<>>
            /\ zsims' = <<>>
            /\ msim' = NoMsim
       ELSE /\ zpc' = "merge"
            /\ UNCHANGED <<zin, zcalls, zsims, msim>>
    /\ UNCHANGED <<merged, calibVars, trialVars>>

\* cv.MultiSim.merge(msims, base=True): the base sims of the containers; an
\* updated Covasim gives each the label of its container
Merge ==
    /\ zpc = "merge"
    /\ merged' = [i \in 1..Len(msims) |->
                     IF zin.updated
                     THEN [msims[i].base_sim EXCEPT !.label = msims[i].label]
                     ELSE msims[i].base_sim]
    /\ zpc' = "done"
    /\ UNCHANGED <<zin, zcalls, zsims, msim, msims, calibVars, trialVars>>

----------------------------------------------------------------------------
(* The specifications *)

CalibIdle ==
    /\ mpc = "off" /\ dbfile = NoFile /\ wk = [w \in Workers |-> IdleWorker]
    /\ best_pars = NoPars /\ before = NoOut /\ after = NoOut
    /\ plotted = <<>> /\ err = "none" /\ datafile = TRUE /\ removed = FALSE
TrialIdle ==
    /\ call = [fn |-> "none", pars |-> initial_pars, label |-> None,
               return_sim |-> FALSE, trial |-> NoTrial,
               env |-> [datafile |-> TRUE, fault |-> "none", mismatch |-> 1]]
    /\ result = NoResult
ZimIdle ==
    /\ zpc = "off" /\ zin = [k |-> 1, n_runs |-> 1, flabel |-> None, updated |-> FALSE]
    /\ zcalls = <<>> /\ zsims = <<>> /\ msim = NoMsim /\ msims = <<>> /\ merged = <<>>

\* the calibration script, started with or without a database file left behind
CalibInit ==
    /\ mpc = "make_study"
    /\ dbfile \in {NoFile} \cup OldFiles
    /\ wk = [w \in Workers |-> IdleWorker]
    /\ best_pars = NoPars /\ before = NoOut /\ after = NoOut
    /\ plotted = <<>> /\ err = "none"
    /\ datafile \in BOOLEAN
    /\ removed = FALSE
    /\ TrialIdle /\ ZimIdle

CalibNext ==
    \/ MakeStudyExists
    \/ MakeStudyRemove
    \/ MakeStudyCreate
    \/ MakeStudyStorageError
    \/ RunWorkersSpawn
    \/ RunWorkersJoin
    \/ RunWorkersRaise
    \/ \E w \in Workers : WorkerLoadStudy(w)
    \/ \E w \in Workers : WorkerAsk(w)
    \/ \E w \in Workers : WorkerObjective(w)
    \/ \E w \in Workers : WorkerReturn(w)
    \/ MainLoadStudy
    \/ MainBestParams
    \/ MainBefore
    \/ MainAfter
    \/ MainPlot

SpecCalib == CalibInit /\ [][CalibNext]_vars

\* one call of run_sim or run_trial
TrialInit ==
    /\ call \in RunSimCalls \cup RunTrialCalls
    /\ result = NoResult
    /\ CalibIdle /\ ZimIdle

TrialNext ==
    \/ CallRunSim
    \/ CallRunTrial

SpecTrial == TrialInit /\ [][TrialNext]_vars

\* the scenario script
ZimInit ==
    /\ zpc = "parallelize"
    /\ zin \in [k : {1}, n_runs : 1..MaxRuns, flabel : FuncLabels, updated : BOOLEAN]
    /\ zcalls = <<>> /\ zsims = <<>> /\ msim = NoMsim /\ msims = <<>> /\ merged = <<>>
    /\ CalibIdle /\ TrialIdle

ZimNext ==
    \/ \E seed \in 0..MaxRuns : ParallelizeCall(seed)
    \/ ParallelizeCollect
    \/ NewMultiSim
    \/ MultiSimRun
    \/ MultiSimMedian
    \/ Relabel
    \/ RunMsimReturn
    \/ Merge

SpecZim == ZimInit /\ [][ZimNext]_vars

Init == CalibInit \/ TrialInit \/ ZimInit
Next == CalibNext \/ TrialNext \/ ZimNext
Spec == Init /\ [][Next]_vars

----------------------------------------------------------------------------
(* Properties of run_sim and run_trial, under SpecTrial *)

InBounds(pars) ==
    /\ Keys(pars) = ParamNames
    /\ BetaLow <= pars["beta"] /\ pars["beta"] <= BetaHigh
    /\ RdpLow <= pars["rel_death_prob"] /\ pars["rel_death_prob"] <= RdpHigh

TrialReturned == result.done /\ call.fn = "run_trial" /\ result.out.raised = "none"

\* C1, as stated: the value run_trial returns is a mapping with exactly the keys
\* beta and rel_death_prob, each within its bound.
C1_ReturnsMapping ==
    TrialReturned => (result.out.kind = "dict" /\ InBounds(result.out.dict))

\* C1, amended: the mapping run_trial builds has exactly the keys beta and
\* rel_death_prob, each within its bound (beta in [0.005, 0.020], rel_death_prob
\* in [0.5, 3.0]); it is the mapping handed to run_sim, and what run_trial
\* returns is the mismatch scalar, not the mapping.
C1_BuildsMapping ==
    (result.done /\ call.fn = "run_trial") =>
        /\ InBounds(result.pars)
        /\ \A i \in 1..Len(result.simcalls) : result.simcalls[i].pars = result.pars
        /\ result.out.raised = "none" => result.out.kind = "scalar"

C1_Witness ==
    /\ TrialReturned
    /\ result.pars["beta"] = BetaHigh
    /\ result.pars["rel_death_prob"] = RdpLow

\* C2: a call of run_sim that returns has built the dictionary, run the
\* simulator and computed the fit; it returns the simulation object (with the
\* given label and the two parameters) when return_sim is true and the mismatch
\* of the fit when return_sim is false, never the other kind.
C2_RunSimReturn ==
    (result.done /\ call.fn = "run_sim" /\ result.out.raised = "none") =>
        /\ result.out.steps = <<"dict", "Sim", "run", "compute_fit">>
        /\ call.return_sim =>
              /\ result.out.kind = "sim"
              /\ result.out.sim.label = call.label
              /\ result.out.sim.beta = call.pars["beta"]
              /\ result.out.sim.rel_death_prob = call.pars["rel_death_prob"]
              /\ result.out.sim.ran /\ result.out.sim.fitted
        /\ ~ call.return_sim =>
              /\ result.out.kind = "scalar"
              /\ result.out.mismatch = call.env.mismatch

C2_Witness ==
    /\ result.done /\ call.fn = "run_sim" /\ result.out.raised = "none"
    /\ ~ call.return_sim
    /\ call.label = "After calibration"
    /\ result.out.kind = "scalar" /\ result.out.mismatch = 2

\* C5: run_trial calls run_sim exactly once, with the two values the trial
\* sampled and with return_sim false, and returns exactly what that call
\* returned: the mismatch scalar, never a simulation object.
C5_TrialFeedsRunSim ==
    (result.done /\ call.fn = "run_trial") =>
        /\ Len(result.simcalls) = 1
        /\ Keys(result.params) = ParamNames
        /\ result.simcalls[1].pars["beta"] = result.params["beta"]
        /\ result.simcalls[1].pars["rel_death_prob"] = result.params["rel_death_prob"]
        /\ Keys(result.simcalls[1].pars) = ParamNames
        /\ result.simcalls[1].return_sim = FALSE
        /\ result.out = result.simout
        /\ result.out.kind # "sim"
        /\ result.out.raised = "none" =>
              /\ result.out.kind = "scalar"
              /\ result.out.mismatch = call.env.mismatch

C5_Witness ==
    /\ TrialReturned
    /\ result.out.kind = "scalar" /\ result.out.mismatch = 2
    /\ result.params["beta"] > BetaLow /\ result.params["beta"] < BetaHigh

----------------------------------------------------------------------------
(* Properties of the calibration script, under SpecCalib *)

Trials == BagToSet(dbfile.trials)
AfterMakeStudy == {"run_workers", "join", "load_study", "best_params",
                   "before", "after", "plot", "done"}
AfterJoin == {"load_study", "best_params", "before", "after", "plot", "done"}

RECURSIVE SumDone(_)
SumDone(ws) ==
    IF ws = {} THEN 0
    ELSE LET w == CHOOSE x \in ws : TRUE IN wk[w].done + SumDone(ws \ {w})

RECURSIVE CountComplete(_)
CountComplete(ts) ==
    IF ts = {} THEN 0
    ELSE LET t == CHOOSE x \in ts : TRUE
         IN (IF t.state = "COMPLETE" THEN CopiesIn(t, dbfile.trials) ELSE 0)
            + CountComplete(ts \ {t})

\* C3: create_study is only called when no database file exists (an existing
\* one was removed first), and once make_study has returned the file holds a
\* study of that name with no trial of an earlier run.
C3_FreshStudy ==
    /\ mpc = "create_study" => ~ dbfile.exists
    /\ mpc = "run_workers" =>
          dbfile = [exists |-> TRUE, study |-> TRUE, trials |-> EmptyBag]
    /\ mpc \in AfterMakeStudy =>
          /\ dbfile.exists /\ dbfile.study
          /\ \A t \in Trials : t.epoch = 1

C3_Witness ==
    /\ mpc = "run_workers"
    /\ removed
    /\ dbfile.exists /\ dbfile.study /\ dbfile.trials = EmptyBag

\* C4: every running trial is in the hands of exactly one worker, every trial a
\* worker finished is recorded once, and when all workers have returned the
\* study holds exactly n_workers * n_trials trials, all complete.
C4_AllTrialsRecorded ==
    mpc \in AfterMakeStudy =>
        /\ CopiesIn(RunningTrial, dbfile.trials)
              = Cardinality({w \in Workers : wk[w].pc = "objective"})
        /\ CountComplete(Trials) = SumDone(Workers)
        /\ (\A w \in Workers : wk[w].pc = "returned") =>
              /\ \A w \in Workers : wk[w].done = n_trials
              /\ BagCardinality(dbfile.trials) = n_workers * n_trials
              /\ \A t \in Trials : t.state = "COMPLETE"

C4_Witness ==
    /\ mpc = "load_study"
    /\ \A w \in Workers : wk[w].pc = "returned"
    /\ BagCardinality(dbfile.trials) = n_workers * n_trials

\* C8: an exception ends the script.  A worker that raised never runs again;
\* once a worker has raised the main process only waits or crashes; the
\* exception that reaches the top level is the one that was raised; at the
\* crash and after it no result (best parameters, sims, plot) is produced.
C8_FailStop ==
    [][ /\ \A w \in Workers : wk[w].pc = "raised" => wk'[w] = wk[w]
        /\ (\E w \in Workers : wk[w].pc = "raised") =>
              /\ mpc' \in {"join", "crashed"}
              /\ mpc' = "crashed" => \E w \in Workers :
                                        wk[w].pc = "raised" /\ err' = wk[w].err
        /\ mpc' = "crashed" =>
              /\ err' # "none"
              /\ best_pars' = best_pars /\ before' = before /\ after' = after
              /\ plotted' = <<>>
        /\ mpc = "crashed" => UNCHANGED vars
        /\ (err' # "none") = (mpc' = "crashed")
      ]_vars

C8_Witness ==
    /\ mpc = "crashed"
    /\ \E w \in Workers : wk[w].pc = "raised" /\ wk[w].err = err /\ wk[w].done > 0
    /\ \E w \in Workers : wk[w].pc = "objective"
    /\ best_pars = NoPars /\ plotted = <<>>

\* C9: the script is a linear sequence.  No worker leaves idle before
\* make_study has returned, and the study a worker loads is there and fresh;
\* the main process goes past run_workers only when every worker has returned;
\* the two final simulations run only after best_params has been read.
C9_LinearSequence ==
    /\ (\E w \in Workers : wk[w].pc # "idle") =>
          /\ mpc \notin {"make_study", "remove", "create_study", "run_workers"}
          /\ dbfile.exists /\ dbfile.study
          /\ \A t \in Trials : t.epoch = 1
    /\ \A w \in Workers : wk[w].err # "KeyError"
    /\ mpc \in AfterJoin => \A w \in Workers : wk[w].pc = "returned"
    /\ (mpc \in {"before", "after", "plot", "done"} \/ before # NoOut \/ after # NoOut)
          => best_pars # NoPars
    /\ after # NoOut => before # NoOut
    /\ plotted # <<>> => (before # NoOut /\ after # NoOut)

C9_Witness ==
    /\ mpc = "done"
    /\ removed
    /\ plotted = <<before.sim, after.sim>>
    /\ after.sim.label = "After calibration"

\* C10: the mapping read from best_params is the parameter set of a complete
\* trial of the study whose mismatch is at most that of every other trial; it
\* has exactly the keys beta and rel_death_prob, within the sampling bounds, so
\* the 'After calibration' call of run_sim finds both keys.
C10_BestPars ==
    best_pars # NoPars =>
        /\ InBounds(best_pars)
        /\ \E t \in Trials :
              /\ t.state = "COMPLETE"
              /\ t.params = best_pars
              /\ \A o \in Trials : o.state = "COMPLETE" /\ t.value <= o.value
        /\ err # "KeyError"
        /\ after # NoOut =>
              /\ after.sim.beta = best_pars["beta"]
              /\ after.sim.rel_death_prob = best_pars["rel_death_prob"]

C10_Witness ==
    /\ mpc = "done"
    /\ \E t, o \in Trials : t.value < o.value /\ t.params = best_pars /\ o.params # best_pars
    /\ after.sim.beta = best_pars["beta"]

----------------------------------------------------------------------------
(* Properties of run_msim, under SpecZim *)

\* C6: func is invoked once per seed 0..n_runs-1, never twice with one seed and
\* always with the keyword arguments of the call; the container holds exactly
\* those n_runs sims, in seed order, and they have all been run when the median
\* is computed.
C6_FanOut ==
    /\ zpc \in {"parallelize", "MultiSim", "run", "median", "relabel", "return"} =>
          /\ \A i, j \in 1..Len(zcalls) : zcalls[i].seed = zcalls[j].seed => i = j
          /\ \A i \in 1..Len(zcalls) :
                /\ zcalls[i].seed \in 0..(zin.n_runs - 1)
                /\ zcalls[i].kwargs = Scenarios[zin.k].kwargs
    /\ zpc \in {"MultiSim", "run", "median", "relabel", "return"} =>
          /\ Len(zcalls) = zin.n_runs
          /\ {zcalls[i].seed : i \in 1..Len(zcalls)} = 0..(zin.n_runs - 1)
    /\ zpc \in {"run", "median", "relabel", "return"} =>
          /\ Len(msim.sims) = zin.n_runs
          /\ \A i \in 1..Len(msim.sims) :
                /\ msim.sims[i].seed = i - 1
                /\ msim.sims[i].kwargs = Scenarios[zin.k].kwargs
    /\ zpc \in {"relabel", "return"} =>
          /\ \A i \in 1..Len(msim.sims) : msim.sims[i].ran
          /\ msim.base_sim.results = "median"

C6_Witness ==
    /\ zpc = "return"
    /\ zin.n_runs = MaxRuns
    /\ zin.k = 2
    /\ Len(zcalls) = MaxRuns /\ Len(msim.sims) = MaxRuns
    /\ zcalls[1].seed = MaxRuns - 1

\* C7: when run_msim returns, the sim that carries the median results of the
\* container (its base_sim, the one a merge with base=True takes) has the label
\* given to run_msim.
C7_MedianRelabelled ==
    zpc = "return" => msim.base_sim.label = Scenarios[zin.k].label

====
